---- MODULE Spec2Model ----
(***************************************************************************)
(* A model of system_monitor.py: the ResourceMonitor class (threshold      *)
(* configuration, alert callbacks, the evaluator analyze_bottlenecks, the  *)
(* worker loop monitor_loop with its history buffer, start/stop,           *)
(* generate_report) and main() from its arguments to the written report.   *)
(*                                                                         *)
(* Percentages are modelled as integers.  A value that Python holds as     *)
(* None is the number NoneVal; a threshold value that is not a number (a   *)
(* JSON string, list, null) is the number NonNumeric.  Comparing such a    *)
(* value with a number raises TypeError in Python, and so does dividing    *)
(* None: the evaluator's result records whether it raised.                 *)
(***************************************************************************)
EXTENDS Integers, Sequences, FiniteSets, TLC

\* ------------------------------------------------------------------ bounds
\* The history buffer's capacity.  The source keeps 720 Readings
\* (monitor_loop, line 362); the model keeps the same code with a small
\* capacity so that eviction happens within a few ticks.
max_buffer_size == 2
\* The number of collect_data calls (ticks begun) in one behaviour.
MaxTicks == 4
\* The number of threads start() launches in one behaviour.
MaxWorkers == 2
\* The number of callbacks add_alert_callback registers in one behaviour.
MaxCallbacks == 2

\* --------------------------------------------------------------- encodings
NoneVal == -1
NonNumeric == -2

IsNumber(v) == v >= 0

\* ---------------------------------------------------------------- constants
\* The escalation cutoffs of analyze_bottlenecks.
CpuCritical == 95
MemoryCritical == 90
DiskCritical == 95
NetworkCritical == 95

\* ResourceMonitor.__init__: the default thresholds.
DefaultThresholds ==
    [cpu |-> 80, memory |-> 75, disk |-> 85, swap |-> 50, network |-> 90]

ThresholdKeys == {"cpu", "memory", "disk", "swap", "network"}

\* ------------------------------------------------------------ the evaluator
\* An Issue: the dict analyze_bottlenecks appends (type, severity, and the
\* mount point or interface its message names; "" for CPU and Memory).
Issue(type, severity, subject) ==
    [type |-> type, severity |-> severity, subject |-> subject]

\* The outcome of a block of analyze_bottlenecks: the issues it appended,
\* or the fact that it raised.
Returned(issues) == [raised |-> FALSE, issues |-> issues]
Raised == [raised |-> TRUE, issues |-> <<>>]

\* Lines 263-277: the CPU block.
CpuAnalysis(data, th) ==
    IF ~IsNumber(th.cpu) THEN Raised
    ELSE IF data.cpu.total > th.cpu
         THEN Returned(<<Issue("CPU",
                               IF data.cpu.total > CpuCritical
                               THEN "Critical" ELSE "High", "")>>)
         ELSE Returned(<<>>)

\* Lines 279-297: the memory block.  The details string divides
\* mem.get('cached', 0), which is None where psutil reports no cached memory
\* (get_memory_stats, line 122): the division raises.
MemoryAnalysis(data, th) ==
    IF ~IsNumber(th.memory) THEN Raised
    ELSE IF data.memory.ram.percent > th.memory
         THEN IF data.memory.ram.cached = NoneVal THEN Raised
              ELSE Returned(<<Issue("Memory",
                                    IF data.memory.ram.percent > MemoryCritical
                                    THEN "Critical" ELSE "High", "")>>)
         ELSE Returned(<<>>)

\* Lines 299-317: the disk block, one comparison per partition in list order.
RECURSIVE DiskAnalysis(_, _)
DiskAnalysis(partitions, th) ==
    IF partitions = <<>> THEN Returned(<<>>)
    ELSE IF ~IsNumber(th.disk) THEN Raised
    ELSE LET p == Head(partitions)
             rest == DiskAnalysis(Tail(partitions), th)
             mine == IF p.percent > th.disk
                     THEN <<Issue("Disk",
                                  IF p.percent > DiskCritical
                                  THEN "Critical" ELSE "High", p.mount)>>
                     ELSE <<>>
         IN IF rest.raised THEN Raised ELSE Returned(mine \o rest.issues)

\* Line 324: max(bytes_sent_rate, bytes_recv_rate), as the numerator of the
\* two rates (they share the denominator elapsed).
Max(a, b) == IF a >= b THEN a ELSE b

\* Lines 323-327: utilization > limit, where
\*   utilization = (current_rate / (speed * 1024 * 1024 / 8)) * 100
\* and current_rate = delta / elapsed; with speed > 0 and elapsed > 0 the
\* comparison is cross-multiplied.
UtilizationAbove(stats, limit) ==
    Max(stats.sent_delta, stats.recv_delta) * 100 * 8
        > limit * stats.speed * 1024 * 1024 * stats.elapsed

\* Lines 319-342: the network block, one interface at a time in dict order.
\* An interface is analysed when it has the key bytes_sent_rate and
\* stats.get('speed') is truthy (neither None nor 0).
\* The network block with the test of stats.get('speed') left out of line
\* 320: every interface that has a rate is compared.
RECURSIVE NetworkAnalysis_unguarded(_, _)
NetworkAnalysis_unguarded(interfaces, th) ==
    IF interfaces = <<>> THEN Returned(<<>>)
    ELSE LET s == Head(interfaces)
             rest == NetworkAnalysis_unguarded(Tail(interfaces), th)
         IN IF s.has_rate /\ ~IsNumber(th.network) THEN Raised
            ELSE IF rest.raised THEN Raised
            ELSE IF s.has_rate /\ UtilizationAbove(s, th.network)
                 THEN Returned(<<Issue("Network",
                                       IF UtilizationAbove(s, NetworkCritical)
                                       THEN "Critical" ELSE "High", s.nic)>>
                               \o rest.issues)
                 ELSE Returned(rest.issues)

RECURSIVE NetworkAnalysis(_, _)
NetworkAnalysis(interfaces, th) ==
    IF interfaces = <<>> THEN Returned(<<>>)
    ELSE LET s == Head(interfaces)
             rest == NetworkAnalysis(Tail(interfaces), th)
             analysed == s.has_rate /\ s.speed # NoneVal /\ s.speed # 0
         IN IF analysed /\ ~IsNumber(th.network) THEN Raised
            ELSE IF rest.raised THEN Raised
            ELSE IF analysed /\ UtilizationAbove(s, th.network)
                 THEN Returned(<<Issue("Network",
                                       IF UtilizationAbove(s, NetworkCritical)
                                       THEN "Critical" ELSE "High", s.nic)>>
                               \o rest.issues)
                 ELSE Returned(rest.issues)

\* Lines 259-344: analyze_bottlenecks.  The blocks run in this order and the
\* first one that raises ends the call; there is no block for swap.
analyze_bottlenecks(data, th) ==
    LET c == CpuAnalysis(data, th)
        m == MemoryAnalysis(data, th)
        d == DiskAnalysis(data.disk.partitions, th)
        n == NetworkAnalysis(data.network.interfaces, th)
    IN IF c.raised \/ m.raised \/ d.raised \/ n.raised THEN Raised
       ELSE Returned(c.issues \o m.issues \o d.issues \o n.issues)

\* ------------------------------------------------------------- the sampler
\* What the metric source (psutil) answers in one tick: the values it
\* reports and which of its calls fails, if any.
\*   "cpu", "memory", "network": the call raises inside get_cpu_stats,
\*       get_memory_stats or get_network_stats, which catch nothing;
\*   "disk_partitions": psutil.disk_partitions raises (line 138, outside
\*       every try of get_disk_stats);
\*   "disk_usage": psutil.disk_usage raises OSError for every partition
\*       (caught at line 151, the partition is left out);
\*   "disk_io": psutil.disk_io_counters raises (caught at line 166).
Faults ==
    {"none", "cpu", "memory", "network",
     "disk_partitions", "disk_usage", "disk_io"}

DiskFaults == {"disk_partitions", "disk_usage", "disk_io"}

\* Lines 83-109, 111-133, 175-220: the getters that catch nothing of the
\* calls modelled here.
get_cpu_stats(src) ==
    [raised |-> src.fault = "cpu", value |-> [total |-> src.cpu_total]]

get_memory_stats(src) ==
    [raised |-> src.fault = "memory",
     value |-> [ram |-> [percent |-> src.ram_percent,
                         cached |-> src.ram_cached],
                swap |-> [percent |-> src.swap_percent]]]

\* One interface of get_network_stats, before any rate is computed: the
\* keys bytes_sent_rate and bytes_recv_rate are absent (has_rate FALSE).
Interface(n) ==
    [nic |-> n.nic, bytes_sent |-> n.bytes_sent, bytes_recv |-> n.bytes_recv,
     speed |-> n.speed, has_rate |-> FALSE,
     sent_delta |-> 0, recv_delta |-> 0, elapsed |-> 0]

get_network_stats(src) ==
    [raised |-> src.fault = "network",
     value |-> [interfaces |->
                   [i \in 1..Len(src.nics) |-> Interface(src.nics[i])]]]

\* Lines 135-173: get_disk_stats.  A partition whose disk_usage raises
\* OSError is skipped; a failing disk_io_counters leaves io empty; a failing
\* disk_partitions is not caught.
get_disk_stats(src) ==
    [raised |-> src.fault = "disk_partitions",
     value |-> [partitions |-> IF src.fault = "disk_usage"
                               THEN <<>> ELSE src.partitions,
                io_known |-> src.fault # "disk_io"]]

\* Lines 247-252: the rates of one interface against the previous Reading.
RECURSIVE FindNic(_, _)
FindNic(interfaces, nic) ==
    IF interfaces = <<>> THEN <<>>
    ELSE IF Head(interfaces).nic = nic THEN <<Head(interfaces)>>
    ELSE FindNic(Tail(interfaces), nic)

WithRates(current, last_interfaces, interval) ==
    LET previous == FindNic(last_interfaces, current.nic)
    IN IF previous = <<>> THEN current
       ELSE [current EXCEPT
                !.has_rate = TRUE,
                !.sent_delta = current.bytes_sent - previous[1].bytes_sent,
                !.recv_delta = current.bytes_recv - previous[1].bytes_recv,
                !.elapsed = interval]

\* Lines 222-257: collect_data.  Any getter that raises makes the call
\* raise (logged and re-raised at 255-257); otherwise the Reading, with
\* rates when the buffer holds a previous Reading with an earlier timestamp.
collect_data(src, buffer, now) ==
    LET c == get_cpu_stats(src)
        m == get_memory_stats(src)
        d == get_disk_stats(src)
        n == get_network_stats(src)
        interval == IF buffer = <<>> THEN 0
                    ELSE now - buffer[Len(buffer)].timestamp
        nics == IF buffer # <<>> /\ interval > 0
                THEN [i \in 1..Len(n.value.interfaces) |->
                         WithRates(n.value.interfaces[i],
                                   buffer[Len(buffer)].network.interfaces,
                                   interval)]
                ELSE n.value.interfaces
    IN IF c.raised \/ m.raised \/ d.raised \/ n.raised
       THEN [raised |-> TRUE, data |-> <<>>]
       ELSE [raised |-> FALSE,
             data |-> <<[timestamp |-> now, cpu |-> c.value,
                         memory |-> m.value, disk |-> d.value,
                         network |-> [interfaces |-> nics]]>>]

\* ------------------------------------------------------------------ alerts
\* The alert callbacks a caller may register: one that returns and one that
\* raises an Exception.
Callbacks == {"email_alert", "failing_sink"}

CallbackRaises(cb) == cb = "failing_sink"

\* Lines 75-81: trigger_alerts.  The sequence of calls it makes: every
\* callback in list order with the issue list; an exception of a callback
\* is caught and logged (line 81) and the loop goes on to the next one.
\* trigger_alerts without the try/except of lines 78-81: the first callback
\* that raises ends the loop.
RECURSIVE trigger_alerts_unguarded(_, _)
trigger_alerts_unguarded(callbacks, issue_list) ==
    IF callbacks = <<>> THEN <<>>
    ELSE <<[callback |-> Head(callbacks), issues |-> issue_list,
            error_logged |-> FALSE]>>
         \o IF CallbackRaises(Head(callbacks)) THEN <<>>
            ELSE trigger_alerts_unguarded(Tail(callbacks), issue_list)

RECURSIVE trigger_alerts(_, _)
trigger_alerts(callbacks, issue_list) ==
    IF callbacks = <<>> THEN <<>>
    ELSE <<[callback |-> Head(callbacks), issues |-> issue_list,
            error_logged |-> CallbackRaises(Head(callbacks))]>>
         \o trigger_alerts(Tail(callbacks), issue_list)

\* ---------------------------------------------------------------- the state
VARIABLES
    running,         \* self.running
    thread,          \* self.thread: the last worker launched, NoneVal if none
    data_buffer,     \* self.data_buffer
    thresholds,      \* self.thresholds
    alert_callbacks, \* self.alert_callbacks
    pc,              \* each worker's position in monitor_loop
    data,            \* each worker's local data: <<>> or <<the Reading>>
    fault,           \* what failed in the metric source in the worker's tick
    issues,          \* each worker's local issues: the evaluator's outcome
    alerts,          \* the callback calls made in the worker's tick, in order
    slice,           \* the value of data_buffer[-max_buffer_size:] at 364,
                     \* between its evaluation and the assignment
    clock,           \* datetime.now(), one unit per collect_data call
    caller,          \* the calling context: "ready", or "join" inside stop()
    appended,        \* history: the last max_buffer_size Readings appended,
                     \* in append order
    stop_requested,  \* history: stop() cleared the flag while the worker,
                     \* launched by the preceding start(), was still looping
    main_pc,         \* main()'s position, "api" when the caller is not main
    args,            \* main()'s --thresholds argument
    report,          \* generate_report's local report, as far as it is built
    iterator,        \* the list iterator of generate_report's for loop
    views            \* history: the timestamps of the buffer at each of
                     \* generate_report's reads of it

vars ==
    <<running, thread, data_buffer, thresholds, alert_callbacks, pc, data,
      fault, issues, alerts, slice, clock, caller, appended, stop_requested,
      main_pc, args, report, iterator, views>>

Workers == 1..MaxWorkers

NoResult == Returned(<<>>)

\* generate_report not called yet: no report dict, no iterator.
NoReport ==
    [duration |-> NoneVal, start_time |-> NoneVal, end_time |-> NoneVal,
     data_points |-> NoneVal, analysis |-> <<>>]

\* A list iterator holds the list object it was made from and an index.
\* While that object is still the one self.data_buffer names (live), its
\* content is data_buffer; once line 364 has bound the attribute to a new
\* list, the iterator goes on over the old object, whose content is list.
NoIterator == [live |-> FALSE, list |-> <<>>, index |-> 0]

\* ResourceMonitor.__init__ (lines 49-62) and no thread launched yet.
MonitorInit ==
    /\ running = FALSE
    /\ thread = NoneVal
    /\ data_buffer = <<>>
    /\ thresholds = DefaultThresholds
    /\ alert_callbacks = <<>>
    /\ pc = [w \in Workers |-> "unborn"]
    /\ data = [w \in Workers |-> <<>>]
    /\ fault = [w \in Workers |-> "none"]
    /\ issues = [w \in Workers |-> NoResult]
    /\ alerts = [w \in Workers |-> <<>>]
    /\ slice = [w \in Workers |-> <<>>]
    /\ clock = 0
    /\ caller = "ready"
    /\ appended = <<>>
    /\ stop_requested = [w \in Workers |-> FALSE]
    /\ report = NoReport
    /\ iterator = NoIterator
    /\ views = {}

\* --------------------------------------------------------------- the worker
\* The variables of the calling context and of main().
callerVars == <<caller, main_pc, args, report, iterator, views>>
reportVars == <<report, iterator, views>>
configVars == <<thresholds, alert_callbacks>>

\* Line 348: while self.running.
LoopCheck(w) ==
    /\ pc[w] = "check"
    /\ pc' = [pc EXCEPT ![w] = IF running THEN "collect" ELSE "done"]
    /\ UNCHANGED <<running, thread, data_buffer, data, fault, issues, alerts,
                   slice, clock, appended, stop_requested, configVars,
                   callerVars>>

\* Line 350: data = self.collect_data(), on what the metric source answers.
\* A raise goes to the handler at 367.
Collect(w, src) ==
    /\ pc[w] = "collect"
    /\ clock < MaxTicks
    /\ LET got == collect_data(src, data_buffer, clock)
       IN /\ data' = [data EXCEPT ![w] = got.data]
          /\ pc' = [pc EXCEPT ![w] = IF got.raised THEN "except" ELSE "append"]
    /\ fault' = [fault EXCEPT ![w] = src.fault]
    /\ clock' = clock + 1
    /\ UNCHANGED <<running, thread, data_buffer, issues, alerts, slice,
                   appended, stop_requested, configVars, callerVars>>

\* data_buffer[-max_buffer_size:].
LastN(s, n) == IF Len(s) <= n THEN s ELSE SubSeq(s, Len(s) - n + 1, Len(s))

\* Line 351: self.data_buffer.append(data).
AppendReading(w) ==
    /\ pc[w] = "append"
    /\ data_buffer' = data_buffer \o data[w]
    /\ appended' = LastN(appended \o data[w], max_buffer_size)
    /\ pc' = [pc EXCEPT ![w] = "analyze"]
    /\ UNCHANGED <<running, thread, data, fault, issues, alerts, slice, clock,
                   stop_requested, configVars, callerVars>>

\* Lines 354-359: issues = self.analyze_bottlenecks(data); if issues:
\* self.trigger_alerts(issues).  A raise of the evaluator goes to the
\* handler at 367.
Analyze(w) ==
    /\ pc[w] = "analyze"
    /\ LET found == analyze_bottlenecks(data[w][1], thresholds)
       IN /\ issues' = [issues EXCEPT ![w] = found]
          /\ alerts' = [alerts EXCEPT ![w] =
                           IF ~found.raised /\ found.issues # <<>>
                           THEN trigger_alerts(alert_callbacks, found.issues)
                           ELSE <<>>]
          /\ pc' = [pc EXCEPT ![w] = IF found.raised THEN "except" ELSE "trim"]
    /\ UNCHANGED <<running, thread, data_buffer, data, fault, slice, clock,
                   appended, stop_requested, configVars, callerVars>>

\* Lines 363-364, first half: the test of the length and the evaluation of
\* the slice.
TrimRead(w) ==
    /\ pc[w] = "trim"
    /\ IF Len(data_buffer) > max_buffer_size
       THEN /\ slice' = [slice EXCEPT ![w] = LastN(data_buffer, max_buffer_size)]
            /\ pc' = [pc EXCEPT ![w] = "trim_store"]
       ELSE /\ slice' = slice
            /\ pc' = [pc EXCEPT ![w] = "sleep"]
    /\ UNCHANGED <<running, thread, data_buffer, data, fault, issues, alerts,
                   clock, appended, stop_requested, configVars, callerVars>>

\* Line 364, second half: the assignment self.data_buffer = <the slice>.
\* The list that was self.data_buffer is not changed by it: an iterator made
\* from that list keeps it.
TrimStore(w) ==
    /\ pc[w] = "trim_store"
    /\ data_buffer' = slice[w]
    /\ slice' = [slice EXCEPT ![w] = <<>>]
    /\ pc' = [pc EXCEPT ![w] = "sleep"]
    /\ iterator' = IF iterator.live
                   THEN [iterator EXCEPT !.live = FALSE, !.list = data_buffer]
                   ELSE iterator
    /\ UNCHANGED <<running, thread, data, fault, issues, alerts, clock,
                   appended, stop_requested, configVars, caller, main_pc,
                   args, report, views>>

\* The locals of a tick are dead once the worker sleeps.
TickOver(w) ==
    /\ data' = [data EXCEPT ![w] = <<>>]
    /\ fault' = [fault EXCEPT ![w] = "none"]
    /\ issues' = [issues EXCEPT ![w] = NoResult]
    /\ alerts' = [alerts EXCEPT ![w] = <<>>]

\* Line 366: time.sleep(self.interval), then back to the loop test.
Sleep(w) ==
    /\ pc[w] = "sleep"
    /\ pc' = [pc EXCEPT ![w] = "check"]
    /\ TickOver(w)
    /\ UNCHANGED <<running, thread, data_buffer, slice, clock, appended,
                   stop_requested, configVars, callerVars>>

\* The handler with the break of line 370 taken whatever self.running is.
HandleErrorBreaks(w) ==
    /\ pc[w] = "except"
    /\ pc' = [pc EXCEPT ![w] = "done"]
    /\ UNCHANGED <<running, thread, data_buffer, data, fault, issues, alerts,
                   slice, clock, appended, stop_requested, thresholds,
                   alert_callbacks, caller, main_pc, args, reportVars>>

\* Lines 367-370: except Exception: log; if not self.running: break.
HandleError(w) ==
    /\ pc[w] = "except"
    /\ pc' = [pc EXCEPT ![w] = IF ~running THEN "done" ELSE "backoff"]
    /\ UNCHANGED <<running, thread, data_buffer, data, fault, issues, alerts,
                   slice, clock, appended, stop_requested, configVars,
                   callerVars>>

\* Line 371: time.sleep(1), then back to the loop test.
Backoff(w) ==
    /\ pc[w] = "backoff"
    /\ pc' = [pc EXCEPT ![w] = "check"]
    /\ TickOver(w)
    /\ UNCHANGED <<running, thread, data_buffer, slice, clock, appended,
                   stop_requested, configVars, callerVars>>

\* The worker's steps.  MetricAnswers is the set of answers the metric
\* source may give in a tick.
WorkerStep(w, MetricAnswers) ==
    \/ LoopCheck(w)
    \/ \E src \in MetricAnswers : Collect(w, src)
    \/ AppendReading(w)
    \/ Analyze(w)
    \/ TrimRead(w)
    \/ TrimStore(w)
    \/ Sleep(w)
    \/ HandleError(w)
    \/ Backoff(w)

\* ------------------------------------------------------- the calling context
workerVars ==
    <<pc, data, fault, issues, alerts, slice, clock, data_buffer, appended>>

\* Lines 64-69: set_thresholds(**kwargs); kwargs is a function from its keys
\* to its values.  A key that is no key of self.thresholds is skipped; the
\* value of a key that is one is stored as given.
set_thresholds(th, kwargs) ==
    [k \in ThresholdKeys |-> IF k \in DOMAIN kwargs THEN kwargs[k] ELSE th[k]]

\* Lines 71-73: add_alert_callback.
add_alert_callback(callbacks, cb) == callbacks \o <<cb>>

\* Lines 373-380: start().  With self.running set it does nothing.
start ==
    IF ~running
    THEN /\ \E w \in Workers :
              /\ pc[w] = "unborn"
              /\ \A v \in Workers : v < w => pc[v] # "unborn"
              /\ pc' = [pc EXCEPT ![w] = "check"]
              /\ thread' = w
         /\ running' = TRUE
         /\ stop_requested' = stop_requested
    ELSE UNCHANGED <<running, thread, pc, stop_requested>>

\* Lines 382-386: stop(), up to the join.  It clears the flag and, with a
\* thread, waits in join(timeout=1.0).
stop_begin ==
    IF running
    THEN /\ running' = FALSE
         /\ stop_requested' =
                [w \in Workers |->
                    stop_requested[w] \/ (w = thread /\ pc[w] # "done")]
         /\ caller' = IF thread # NoneVal THEN "join" ELSE "ready"
    ELSE UNCHANGED <<running, stop_requested, caller>>

\* Lines 387-388: join returns, because the thread has ended or because the
\* second of the timeout has passed, whatever the worker is doing then.
stop_return ==
    /\ caller = "join"
    /\ caller' = "ready"

\* The caller of the class: any call, at any time it is not inside stop().
ApiStart ==
    /\ main_pc = "api" /\ caller = "ready"
    /\ start
    /\ UNCHANGED <<data, fault, issues, alerts, slice, clock, data_buffer,
                   appended, configVars, callerVars>>

ApiStop ==
    /\ main_pc = "api" /\ caller = "ready"
    /\ stop_begin
    /\ UNCHANGED <<thread, workerVars, configVars, main_pc, args,
                   reportVars>>

ApiStopReturn ==
    /\ main_pc = "api"
    /\ stop_return
    /\ UNCHANGED <<running, thread, stop_requested, workerVars, configVars,
                   main_pc, args, reportVars>>

ApiAddCallback ==
    /\ main_pc = "api" /\ caller = "ready"
    /\ Len(alert_callbacks) < MaxCallbacks
    /\ \E cb \in Callbacks :
          alert_callbacks' = add_alert_callback(alert_callbacks, cb)
    /\ UNCHANGED <<running, thread, stop_requested, workerVars, thresholds,
                   callerVars>>

\* Lines 503-510 of main(): the --thresholds argument.  Its kind is
\*   "absent":      no argument (or an empty one), nothing is set;
\*   "malformed":   json.loads raises JSONDecodeError, the error is logged
\*                  and the process exits with status 1;
\*   "not_mapping": json.loads returns a value that is no object, so that
\*                  set_thresholds(**thresholds) raises TypeError, which no
\*                  handler of main() catches;
\*   "mapping":     a JSON object, passed to set_thresholds as kwargs.
NoKwargs == [k \in {} |-> 0]

Argument(kind, kwargs) == [kind |-> kind, kwargs |-> kwargs]

MainConfigure ==
    /\ main_pc = "configure"
    /\ main_pc' = CASE args.kind = "malformed" -> "exit_1"
                    [] args.kind = "not_mapping" -> "crashed"
                    [] OTHER -> "callbacks"
    /\ thresholds' = IF args.kind = "mapping"
                     THEN set_thresholds(thresholds, args.kwargs)
                     ELSE thresholds
    /\ UNCHANGED <<running, thread, stop_requested, workerVars,
                   alert_callbacks, caller, args, reportVars>>

\* Lines 513-514: with --email-alerts, email_alert is registered.
MainCallbacks ==
    /\ main_pc = "callbacks"
    /\ main_pc' = "start"
    /\ \E email_alerts \in BOOLEAN :
          alert_callbacks' = IF email_alerts
                             THEN add_alert_callback(alert_callbacks,
                                                     "email_alert")
                             ELSE alert_callbacks
    /\ UNCHANGED <<running, thread, stop_requested, workerVars, thresholds,
                   caller, args, reportVars>>

\* Line 523: monitor.start().
MainStart ==
    /\ main_pc = "start"
    /\ main_pc' = "sleep"
    /\ start
    /\ UNCHANGED <<data, fault, issues, alerts, slice, clock, data_buffer,
                   appended, configVars, caller, args, reportVars>>

\* Lines 525-531: the sleep of args.duration ends (or is interrupted) and
\* monitor.stop() is called.
MainStop ==
    /\ main_pc = "sleep"
    /\ main_pc' = "stopping"
    /\ stop_begin
    /\ UNCHANGED <<thread, workerVars, configVars, args, reportVars>>

\* stop() returns to main(), which goes on to the report.
MainStopReturn ==
    /\ main_pc = "stopping"
    /\ main_pc' = "report"
    /\ stop_return
    /\ UNCHANGED <<running, thread, stop_requested, workerVars, configVars,
                   args, reportVars>>

\* Line 532 of main(): if monitor.data_buffer, the report is generated;
\* otherwise a warning is logged and main() ends.
MainReportCheck ==
    /\ main_pc = "report"
    /\ main_pc' = IF data_buffer # <<>> THEN "report_duration" ELSE "skipped"
    /\ UNCHANGED <<running, thread, stop_requested, workerVars, configVars,
                   caller, args, reportVars>>

\* ---------------------------------------------------------- generate_report
\* generate_report reads self.data_buffer once per expression of the dict it
\* builds (lines 399, 400, 401, 404) and once more for the loop (line 408);
\* no lock is held, so a worker still in its tick may append and trim
\* between any two of them.  Each read is one step.  The conditional
\* expressions of 400 and 401 read the attribute twice (the test and the
\* index); a buffer that is not empty never becomes empty, so the two reads
\* are one step.
Timestamps(buffer) == [i \in 1..Len(buffer) |-> buffer[i].timestamp]

\* The part of every step of generate_report that is not its own.
ReportStep(from, to) ==
    /\ main_pc = from
    /\ main_pc' = to
    /\ UNCHANGED <<running, thread, stop_requested, workerVars, configVars,
                   caller, args>>

\* Line 399: 'duration': len(self.data_buffer) * self.interval, the
\* interval being one unit of the clock.
ReportDuration ==
    /\ ReportStep("report_duration", "report_start_time")
    /\ report' = [report EXCEPT !.duration = Len(data_buffer)]
    /\ views' = views \cup {Timestamps(data_buffer)}
    /\ UNCHANGED iterator

\* Line 400: 'start_time'.
ReportStartTime ==
    /\ ReportStep("report_start_time", "report_end_time")
    /\ report' = [report EXCEPT
                     !.start_time = IF data_buffer # <<>>
                                    THEN data_buffer[1].timestamp
                                    ELSE NoneVal]
    /\ views' = views \cup {Timestamps(data_buffer)}
    /\ UNCHANGED iterator

\* Line 401: 'end_time'.
ReportEndTime ==
    /\ ReportStep("report_end_time", "report_data_points")
    /\ report' = [report EXCEPT
                     !.end_time = IF data_buffer # <<>>
                                  THEN data_buffer[Len(data_buffer)].timestamp
                                  ELSE NoneVal]
    /\ views' = views \cup {Timestamps(data_buffer)}
    /\ UNCHANGED iterator

\* Line 404: 'data_points': len(self.data_buffer).
ReportDataPoints ==
    /\ ReportStep("report_data_points", "report_loop")
    /\ report' = [report EXCEPT !.data_points = Len(data_buffer)]
    /\ views' = views \cup {Timestamps(data_buffer)}
    /\ UNCHANGED iterator

\* Line 408: for data in self.data_buffer makes an iterator of the list the
\* attribute names now.
ReportLoop ==
    /\ ReportStep("report_loop", "report_next")
    /\ iterator' = [live |-> TRUE, list |-> <<>>, index |-> 0]
    /\ views' = views \cup {Timestamps(data_buffer)}
    /\ UNCHANGED report

\* The content of the list the iterator holds.
Iterated == IF iterator.live THEN data_buffer ELSE iterator.list

\* Lines 408-412: one turn of the loop.  The iterator yields the element at
\* its index, or ends the loop when the index has reached the length the
\* list has now; the body appends the entry of that Reading.  A raise of
\* the evaluator leaves generate_report and is caught at line 537 of
\* main(), which exits with status 1: no report is written.  After the loop
\* the report is written (lines 414-425).
ReportNext ==
    /\ main_pc = "report_next"
    /\ IF iterator.index < Len(Iterated)
       THEN LET reading == Iterated[iterator.index + 1]
                found == analyze_bottlenecks(reading, thresholds)
            IN IF found.raised
               THEN /\ main_pc' = "exit_1"
                    /\ iterator' = NoIterator
                    /\ UNCHANGED <<report, views>>
               ELSE /\ main_pc' = "report_next"
                    /\ report' =
                           [report EXCEPT
                               !.analysis =
                                   Append(@, [timestamp |-> reading.timestamp,
                                              issues |-> found.issues])]
                    /\ iterator' = [iterator EXCEPT !.index = @ + 1]
                    /\ views' = views \cup {Timestamps(Iterated)}
       ELSE /\ main_pc' = "written"
            /\ iterator' = NoIterator
            /\ views' = views \cup {Timestamps(Iterated)}
            /\ UNCHANGED report
    /\ UNCHANGED <<running, thread, stop_requested, workerVars, configVars,
                   caller, args>>

generate_report ==
    \/ ReportDuration
    \/ ReportStartTime
    \/ ReportEndTime
    \/ ReportDataPoints
    \/ ReportLoop
    \/ ReportNext

\* ------------------------------------------------ the metric source's answers
Calm ==
    [fault |-> "none", cpu_total |-> 10, ram_percent |-> 40, ram_cached |-> 0,
     swap_percent |-> 0,
     partitions |-> <<[mount |-> "/", percent |-> 50]>>,
     nics |-> <<[nic |-> "eth0", bytes_sent |-> 0, bytes_recv |-> 0,
                 speed |-> 1]>>]

Hot == [Calm EXCEPT !.cpu_total = 92]

FullDisk == [Calm EXCEPT !.partitions = <<[mount |-> "/", percent |-> 97]>>]

NoCache == [Calm EXCEPT !.ram_percent = 80, !.ram_cached = NoneVal]

\* In the specification of start/stop: a Reading with an issue, a Reading on
\* which the evaluator raises, and a collection that fails.
LifecycleAnswers ==
    {Hot, NoCache, [Calm EXCEPT !.fault = "cpu"]}

\* In the specifications of one run: also the failures of the disk calls.
RunAnswers ==
    {Hot, NoCache,
     [FullDisk EXCEPT !.fault = "disk_usage"],
     [FullDisk EXCEPT !.fault = "disk_partitions"],
     [Calm EXCEPT !.fault = "cpu"]}

\* ------------------------------------------------------------ specifications
\* Spec: a caller of the class that calls start() and stop() in any order.
ApiInit ==
    /\ MonitorInit
    /\ main_pc = "api"
    /\ args = Argument("absent", NoKwargs)

Next ==
    \/ ApiStart
    \/ ApiStop
    \/ ApiStopReturn
    \/ \E w \in Workers : WorkerStep(w, LifecycleAnswers)

Spec == ApiInit /\ [][Next]_vars

\* SpecRun: a caller that registers callbacks, starts the monitor once and
\* stops it.
RunStart ==
    /\ thread = NoneVal
    /\ ApiStart

RunNext ==
    \/ ApiAddCallback
    \/ RunStart
    \/ ApiStop
    \/ ApiStopReturn
    \/ \E w \in Workers : WorkerStep(w, RunAnswers)

SpecRun == ApiInit /\ [][RunNext]_vars

\* SpecMain: main(), from the parsed arguments to the written report.
MainOverrides ==
    {[cpu |-> 85],
     [cpu |-> 85, memory |-> 80],
     [cpu |-> 85, bogus |-> 70],
     [bogus |-> 70],
     [memory |-> NonNumeric],
     [disk |-> 90, typo |-> 5, swap |-> NonNumeric]}

MainArguments ==
    {Argument(k, NoKwargs) : k \in {"absent", "malformed", "not_mapping"}}
    \cup {Argument("mapping", kw) : kw \in MainOverrides}

MainInit ==
    /\ MonitorInit
    /\ main_pc = "configure"
    /\ args \in MainArguments

MainNext ==
    \/ MainConfigure
    \/ MainCallbacks
    \/ MainStart
    \/ MainStop
    \/ MainStopReturn
    \/ MainReportCheck
    \/ generate_report
    \/ \E w \in Workers : WorkerStep(w, RunAnswers)

SpecMain == MainInit /\ [][MainNext]_vars

\* SpecEval: one tick of a worker on every answer of the metric source, the
\* buffer empty or holding one earlier Reading, under every threshold
\* configuration set_thresholds produces from the overrides below.
EvalOverrides ==
    {NoKwargs, [cpu |-> 96], [swap |-> 20, network |-> 50],
     [memory |-> 90, disk |-> 95], [disk |-> NonNumeric], [network |-> 0]}

EvalNics ==
    {<<>>,
     <<[nic |-> "eth0", bytes_sent |-> 1000000, bytes_recv |-> 0, speed |-> 1]>>,
     <<[nic |-> "eth0", bytes_sent |-> 1120000, bytes_recv |-> 0, speed |-> 1]>>,
     <<[nic |-> "eth0", bytes_sent |-> 2048000, bytes_recv |-> 0, speed |-> 1]>>,
     <<[nic |-> "eth0", bytes_sent |-> 2048000, bytes_recv |-> 0,
        speed |-> NoneVal]>>,
     <<[nic |-> "lo", bytes_sent |-> 2048000, bytes_recv |-> 2048000,
        speed |-> 0],
       [nic |-> "eth0", bytes_sent |-> 1000000, bytes_recv |-> 1120000,
        speed |-> 1]>>,
     <<[nic |-> "eth0", bytes_sent |-> 2048000, bytes_recv |-> 0, speed |-> 0],
       [nic |-> "wlan0", bytes_sent |-> 2048000, bytes_recv |-> 2048000,
        speed |-> 1]>>}

EvalPartitions ==
    {<<>>,
     <<[mount |-> "/", percent |-> 50]>>,
     <<[mount |-> "/", percent |-> 86], [mount |-> "/data", percent |-> 96]>>}

EvalAnswers ==
    {[fault |-> "none", cpu_total |-> c, ram_percent |-> r[1],
      ram_cached |-> r[2], swap_percent |-> sw, partitions |-> p, nics |-> n] :
        c \in {80, 81, 92, 95, 96, 97},
        r \in {<<40, 0>>, <<76, 0>>, <<76, NoneVal>>, <<91, 0>>},
        sw \in {50, 51}, p \in EvalPartitions, n \in EvalNics}
    \cup {[a EXCEPT !.fault = f] :
            a \in {Hot, FullDisk}, f \in Faults \ {"none"}}

\* The earlier Reading: eth0 at 1,000,000 bytes sent, collected 5 or 1
\* second before the tick, at the same instant, or (a clock set back) after.
Earlier ==
    [Calm EXCEPT !.nics = <<[nic |-> "eth0", bytes_sent |-> 1000000,
                             bytes_recv |-> 0, speed |-> 1]>>]

EvalBuffers ==
    {<<>>, collect_data([Earlier EXCEPT !.nics = <<>>], <<>>, 0).data}
    \cup {collect_data(Earlier, <<>>, t).data : t \in {-4, 0, 1, 2}}

EvalInit ==
    /\ running = TRUE
    /\ thread = 1
    /\ data_buffer \in EvalBuffers
    /\ thresholds \in
          {set_thresholds(DefaultThresholds, kw) : kw \in EvalOverrides}
    /\ alert_callbacks = <<"email_alert">>
    /\ pc = [w \in Workers |-> IF w = 1 THEN "collect" ELSE "unborn"]
    /\ data = [w \in Workers |-> <<>>]
    /\ fault = [w \in Workers |-> "none"]
    /\ issues = [w \in Workers |-> NoResult]
    /\ alerts = [w \in Workers |-> <<>>]
    /\ slice = [w \in Workers |-> <<>>]
    /\ clock = 1
    /\ caller = "ready"
    /\ appended = data_buffer
    /\ stop_requested = [w \in Workers |-> FALSE]
    /\ main_pc = "api"
    /\ args = Argument("absent", NoKwargs)
    /\ report = NoReport
    /\ iterator = NoIterator
    /\ views = {}

EvalNext ==
    \/ \E src \in EvalAnswers : Collect(1, src)
    \/ AppendReading(1)
    \/ Analyze(1)

SpecEval == EvalInit /\ [][EvalNext]_vars

\* -------------------------------------------------------------------- claims
\* A worker is inside a tick from collect_data to the trim of the buffer.
TickPcs == {"collect", "append", "analyze", "trim", "trim_store"}

\* The worker's tick has evaluated its Reading (the evaluator returned or
\* raised) and its locals are still live.
Evaluated(w) ==
    /\ data[w] # <<>>
    /\ pc[w] \in {"trim", "trim_store", "sleep", "except", "backoff"}

NumericThresholds == \A k \in ThresholdKeys : IsNumber(thresholds[k])

OfType(issue_list, type) ==
    SelectSeq(issue_list, LAMBDA i : i.type = type)

\* C1: in every reachable state the history buffer holds at most
\* max_buffer_size Readings.
C1_BufferBounded == Len(data_buffer) <= max_buffer_size

\* C2: at the end of each completed tick the history buffer is exactly the
\* last min(n, max_buffer_size) Readings appended, in append order.
C2_BufferIsLastAppended ==
    [][\A w \in Workers :
          (pc[w] \in {"trim", "trim_store"} /\ pc'[w] = "sleep")
              => data_buffer' = appended']_vars

\* C3: across any sequence of start() and stop() calls at most one worker
\* loop is inside a tick (sampling and appending).
C3_AtMostOneActiveWorker ==
    Cardinality({w \in Workers : pc[w] \in TickPcs}) <= 1

\* C4: once stop() has cleared the flag, the worker launched by the
\* preceding start() begins no further tick: its next loop test leaves the
\* loop, whatever start()/stop() calls follow.
C4_StoppedWorkerBeginsNoTick ==
    [][\A w \in Workers :
          (stop_requested[w] /\ pc[w] = "check") => pc'[w] # "collect"]_vars

\* C5: under every numeric threshold configuration the evaluator emits
\* exactly one Issue of type CPU when cpu.total > thresholds.cpu and none
\* otherwise, Critical iff cpu.total > 95 and High otherwise.
C5_CpuIssue ==
    \A w \in Workers :
        (Evaluated(w) /\ NumericThresholds) =>
            LET total == data[w][1].cpu.total
                cpu_issues == OfType(issues[w].issues, "CPU")
            IN IF total > thresholds.cpu
               THEN /\ Len(cpu_issues) = 1
                    /\ cpu_issues[1].severity =
                           IF total > CpuCritical THEN "Critical" ELSE "High"
               ELSE cpu_issues = <<>>

\* C6: for a Reading whose swap.percent is above thresholds.swap the
\* evaluator, when it returns, has emitted an Issue for swap of severity
\* High, after every Disk issue and before every Network issue.
C6_SwapIssue ==
    \A w \in Workers :
        (/\ Evaluated(w) /\ NumericThresholds /\ ~issues[w].raised
         /\ data[w][1].memory.swap.percent > thresholds.swap) =>
            \E i \in 1..Len(issues[w].issues) :
                /\ issues[w].issues[i].type = "Swap"
                /\ issues[w].issues[i].severity = "High"
                /\ \A j \in 1..Len(issues[w].issues) :
                      /\ issues[w].issues[j].type = "Disk" => j < i
                      /\ issues[w].issues[j].type = "Network" => j > i

\* C7: in a tick in which only a disk call of the metric source fails, a
\* Reading is produced with the failed disk fields unknown (no partition,
\* or no io counters), it is appended to the buffer and, the partitions
\* being unknown, no Issue of type Disk is emitted for it.
C7_DiskFailureTolerated ==
    \A w \in Workers :
        (fault[w] \in DiskFaults /\ pc[w] # "collect") =>
            /\ data[w] # <<>>
            /\ (pc[w] # "append" =>
                   appended # <<>> /\ appended[Len(appended)] = data[w][1])
            /\ IF fault[w] = "disk_io"
               THEN ~data[w][1].disk.io_known
               ELSE /\ data[w][1].disk.partitions = <<>>
                    /\ OfType(issues[w].issues, "Disk") = <<>>

\* C8: a tick whose collection fails changes neither the buffer nor the
\* calls made to callbacks; the handler leaves the loop only when the flag
\* is cleared and otherwise backs off and returns to the loop test, which
\* begins another tick while the flag is set; no step makes a worker leave
\* the loop while self.running is set.
C8_FailedTickIsSkipped ==
    [][\A w \in Workers :
          /\ (pc[w] = "collect" /\ pc'[w] = "except") =>
                 /\ data_buffer' = data_buffer
                 /\ data'[w] = <<>>
                 /\ alerts'[w] = <<>>
          /\ (pc[w] = "except" /\ pc'[w] # "except") =>
                 /\ data_buffer' = data_buffer
                 /\ alerts' = alerts
                 /\ pc'[w] = IF running THEN "backoff" ELSE "done"
          /\ (pc[w] = "backoff" /\ pc'[w] # "backoff") =>
                 /\ data_buffer' = data_buffer
                 /\ alerts'[w] = <<>>
                 /\ pc'[w] = "check"
          /\ (pc[w] = "check" /\ pc'[w] # "check" /\ running) =>
                 pc'[w] = "collect"
          /\ (pc[w] # "done" /\ pc'[w] = "done") => ~running]_vars

\* A collection failed while the buffer held a Reading and callbacks were
\* registered, the handler ran with the flag set, and the worker backs off.
C8_Witness ==
    \E w \in Workers :
        /\ pc[w] = "backoff" /\ data[w] = <<>> /\ fault[w] # "none"
        /\ running /\ data_buffer # <<>> /\ alert_callbacks # <<>>

\* C9: when the evaluator returns a non-empty issue list, every registered
\* callback is called exactly once, in registration order, with that list,
\* whichever of them raise, and the tick goes on to the trim of the buffer;
\* no later step of the tick calls a callback again.
C9_EveryCallbackOnce ==
    [][\A w \in Workers :
          /\ (pc[w] = "analyze" /\ pc'[w] # "analyze"
              /\ ~issues'[w].raised /\ issues'[w].issues # <<>>) =>
                 /\ pc'[w] = "trim"
                 /\ Len(alerts'[w]) = Len(alert_callbacks)
                 /\ \A i \in 1..Len(alert_callbacks) :
                       /\ alerts'[w][i].callback = alert_callbacks[i]
                       /\ alerts'[w][i].issues = issues'[w].issues
                       /\ alerts'[w][i].error_logged =
                              CallbackRaises(alert_callbacks[i])
          /\ pc[w] # "analyze" =>
                 (alerts'[w] = alerts[w] \/ alerts'[w] = <<>>)]_vars

\* A tick called two callbacks, the first of which raised.
C9_Witness ==
    \E w \in Workers :
        /\ pc[w] = "sleep"
        /\ Len(alerts[w]) = 2
        /\ alerts[w][1].error_logged
        /\ ~alerts[w][2].error_logged

\* C10: an override mapping with an unknown category key or a value that is
\* no number is rejected: none of its entries is applied and monitoring is
\* not started.
Rejectable(kwargs) ==
    \E k \in DOMAIN kwargs : k \notin ThresholdKeys \/ ~IsNumber(kwargs[k])

C10_BadOverridesRejected ==
    (args.kind = "mapping" /\ Rejectable(args.kwargs)) =>
        /\ thresholds = DefaultThresholds
        /\ thread = NoneVal

\* C11: every report generate_report writes, whether the worker has exited
\* or is still appending or trimming (stop() having timed out), is the
\* report of one buffer content that generate_report saw: its analysis has
\* one entry per Reading of that content, in chronological order, and its
\* data_points, start_time and end_time are the number, the first and the
\* last timestamp of those entries.
Chronological(ts) == \A i \in 1..(Len(ts) - 1) : ts[i] < ts[i + 1]

ReportOfSnapshot(rep, ts) ==
    /\ Timestamps(rep.analysis) = ts
    /\ Chronological(ts)
    /\ rep.data_points = Len(ts)
    /\ rep.start_time = IF ts # <<>> THEN ts[1] ELSE NoneVal
    /\ rep.end_time = IF ts # <<>> THEN ts[Len(ts)] ELSE NoneVal

C11_ReportIsOneSnapshot ==
    main_pc = "written" => \E ts \in views : ReportOfSnapshot(report, ts)

\* C12: the evaluator emits no Issue of type Network for an interface
\* whose link speed is unknown (None or 0) or that has no computed rate,
\* whatever its byte counters and thresholds.network are.
Unmeasurable(stats) == ~stats.has_rate \/ stats.speed \in {NoneVal, 0}

C12_NoNetworkIssueWithoutSpeedOrRate ==
    \A w \in Workers :
        Evaluated(w) =>
            LET interfaces == data[w][1].network.interfaces
                found == issues[w].issues
            IN \A i \in 1..Len(interfaces) :
                  Unmeasurable(interfaces[i]) =>
                      \A j \in 1..Len(found) :
                          ~(/\ found[j].type = "Network"
                            /\ found[j].subject = interfaces[i].nic)

\* The evaluator returned, under a network threshold of 0, on a Reading
\* with an interface that has a positive rate and speed 0 and an interface
\* of known speed and large counters that has no rate.
C12_Witness ==
    \E w \in Workers :
        /\ Evaluated(w) /\ pc[w] = "trim" /\ ~issues[w].raised
        /\ thresholds.network = 0
        /\ LET interfaces == data[w][1].network.interfaces
           IN /\ \E i \in 1..Len(interfaces) :
                    /\ interfaces[i].has_rate
                    /\ interfaces[i].speed = 0
                    /\ interfaces[i].sent_delta > 0
              /\ \E i \in 1..Len(interfaces) :
                    /\ ~interfaces[i].has_rate
                    /\ interfaces[i].speed > 0
                    /\ interfaces[i].bytes_sent > 0

====
